---- MODULE Spec2Model ----
(***************************************************************************)
(* Model of the portfolio page's front-end behaviours.                     *)
(*   - ThemeSwitcher   (src/js/scroll-animations.js, lines 139-295)        *)
(*   - ScrollAnimations (src/js/scroll-animations.js, lines 6-131)         *)
(*   - ParticleBackground (src/js/particle-background.js)                  *)
(*   - fireflies (src/js/fireflies.js)                                     *)
(*   - shooting stars (src/js/shooting-stars.js)                           *)
(*   - TiltEffect, GlassMorph (src/js/glass-interactions.js)               *)
(*   - App (src/js/main.js)                                                *)
(* Each component has its own specification; the variables of the other    *)
(* components stay at their not-yet-constructed values.                    *)
(***************************************************************************)
EXTENDS Integers, Sequences, FiniteSets, TLC

VARIABLES
  \* ---- ThemeSwitcher ----
  tsPc,            \* "loading" before new ThemeSwitcher(), "ready" after
  theme,           \* this.theme
  dataTheme,       \* document.documentElement data-theme attribute
  stored,          \* localStorage item 'theme'
  osDark,          \* matchMedia('(prefers-color-scheme: dark)').matches
  toggleEl,        \* does #theme-toggle exist in the document
  toggle,          \* this.toggle: "null" or "button"
  toggleLabel,     \* aria-label / title of the button
  toggleTransform, \* inline style.transform of the button
  feedbackTimer,   \* a 100 ms feedback timeout is pending
  mqApi,           \* which listener API the MediaQueryList offers
  dispatched,      \* 'themechange' payloads dispatched by the last handler
  errors,          \* console.error calls made by the last handler
  lastOp,          \* the handler that ran last, with its argument
  startAbsent,     \* history: was the key absent when the switcher started
  explicitChoice,  \* history: has toggle/setTheme/reset been used since
  trail,           \* history: the last two handlers, each with the theme and
                   \* the persisted value it started from
  \* ---- ScrollAnimations ----
  saPc,            \* "new" before new ScrollAnimations(), "ready" after
  doc,             \* the static markup: parent, data-animate, data-stagger
  once,            \* this.options.once
  reducedMotion,   \* matchMedia('(prefers-reduced-motion: reduce)').matches
  ioSupported,     \* 'IntersectionObserver' in window
  observer,        \* this.observer !== null
  observed,        \* the observer's observation targets
  elements,        \* this.elements
  visible,         \* element.classList contains 'is-visible'
  shown,           \* inline opacity/transform/filter forced by showAllElements
  delay,           \* element.style.transitionDelay
  animatedCount,   \* 'animated' events dispatched on the element: 0, 1, 2 = more
  lastExit,        \* history: the visible element last reported as having left
  ignored,         \* history: the HTMLElements handed to observe() while
                   \* this.observer was null
  \* ---- ParticleBackground ----
  pbPc,            \* "new" before new ParticleBackground(), then "ready", or
                   \* "nocanvas" when the constructor returned early
  innerWidth,      \* window.innerWidth
  innerHeight,     \* window.innerHeight
  canvasW,         \* this.canvas.width
  canvasH,         \* this.canvas.height
  particleCount,   \* this.options.particleCount
  fpsInterval,     \* this.fpsInterval, NoInterval while undefined
  particles,       \* this.particles
  animationId,     \* this.animationId, NoHandle for null / undefined
  rafPending,      \* handles of the frame callbacks the browser has scheduled
  sinceThen,       \* Date.now() - this.then at the last frame callback
  pbListeners,     \* listeners of the field registered on window
  pbInvoked,       \* which handler of the field the last event invoked
  pbDrew,          \* the last step called draw()
  pbThrown,        \* the last operation raised an exception
  pbDestroyed,     \* history: destroy() calls since construction or the
                   \* last resume(): 0, 1, 2 = more
  pbCalls,         \* the updateParticle / drawParticle calls of the frame
                   \* callback that just ran, in call order
  sinceDraw,       \* history: time from the last redraw to the last frame
                   \* callback, capped at the frame interval
  \* ---- Fireflies ----
  ffPc,            \* "loading" before init(), "running" after
  fireflies,       \* the pool: position, drift, phase, speed, style.opacity
  ffPending,       \* a frame callback of animate is scheduled
  lastTimeSet,     \* lastTime is not 0
  ffPolled,        \* history: animate has run since data-theme last changed
  \* ---- Shooting stars ----
  ssPc,            \* "loading" before the script runs, then "running", or
                   \* "nocontainer" when it returned at the container guard
  ssContainer,     \* the document has a .shooting-stars element
  starDots,        \* background dot elements in the container
  spawnTimer,      \* time left on the pending spawn timeout, or NoTimer
  stars,           \* star elements in the container: age and time of removal
  spawns,          \* history: spawn callbacks fired, up to MaxSpawns
  created,         \* history: star elements created, up to MaxSpawns
  \* ---- TiltEffect / GlassMorph ----
  glPc,            \* "new", then "tilt" after new TiltEffect() or "morph"
                   \* after new GlassMorph()
  tiltOptions,     \* this.options of the tilt effect: maxTilt and glare
  tiltElements,    \* this.elements of the tilt effect
  morphElements,   \* this.elements of the glass morph
  elListeners,     \* the mouse listeners registered on each element
  transform,       \* element.style.transform
  willChange,      \* element.style.willChange
  glare,           \* the .tilt-glare overlay of the element: none/shown/hidden
  blur,            \* the inline --blur-strength of the element
  background,      \* element.style.background
  hover,           \* the element under the pointer, or NotElement
  \* ---- App ----
  appPc,           \* "new" before new App(), "waiting" for DOMContentLoaded,
                   \* "ready" after onReady()
  readyState,      \* document.readyState
  browser,         \* the capabilities of the browser
  page,            \* the elements the markup holds
  initRun,          \* what onReady() did: steps started, completed, caught,
                   \* and the step whose exception ended it
  scrollY,         \* window.scrollY
  desktop,         \* window.innerWidth >= 768
  navLastScrollY,  \* lastScrollY of initNavigation()
  navHidden,       \* navHidden of initNavigation()
  navClasses,      \* the classes 'scrolled' and 'hidden' of .floating-nav
  navFrames        \* handleNavScroll callbacks waiting for a frame

themeVars == <<tsPc, theme, dataTheme, stored, osDark, toggleEl, toggle,
               toggleLabel, toggleTransform, feedbackTimer, mqApi, dispatched,
               errors, lastOp, startAbsent, explicitChoice, trail>>

revealVars == <<saPc, doc, once, reducedMotion, ioSupported, observer,
                observed, elements, visible, shown, delay, animatedCount,
                lastExit, ignored>>

particleVars == <<pbPc, innerWidth, innerHeight, canvasW, canvasH,
                  particleCount, fpsInterval, particles, animationId,
                  rafPending, sinceThen, pbListeners, pbInvoked, pbDrew,
                  pbThrown, pbDestroyed, pbCalls, sinceDraw>>

fireflyVars == <<ffPc, fireflies, ffPending, lastTimeSet, ffPolled>>

starVars == <<ssPc, ssContainer, starDots, spawnTimer, stars, spawns, created>>

glassVars == <<glPc, tiltOptions, tiltElements, morphElements, elListeners,
               transform, willChange, glare, blur, background, hover>>

appVars == <<appPc, readyState, browser, page, initRun, scrollY, desktop,
             navLastScrollY, navHidden, navClasses, navFrames>>

vars == <<themeVars, revealVars, particleVars, fireflyVars, starVars,
          glassVars, appVars>>

(***************************************************************************)
(* ThemeSwitcher                                                           *)
(***************************************************************************)

\* localStorage.getItem returns null for a missing key
NoItem == "<null>"

\* this.theme before the constructor has assigned it
Undefined == "<undefined>"

\* contents the 'theme' key can have when the page loads
StoredValues == {NoItem, "", "light", "dark", "blue"}

\* arguments a caller can pass to setTheme
ThemeArgs == {"light", "dark", "blue", "", Undefined}

\* keys pressed on the toggle button
Keys == {"Enter", " ", "Tab"}

MqApis == {"addEventListener", "addListener", "none"}

\* JavaScript truthiness of a getItem result
Truthy(s) == s /= NoItem /\ s /= ""

getStoredTheme == stored

getPreferredTheme_Inverted(prefersDark) == IF prefersDark THEN "light" ELSE "dark"

getPreferredTheme(prefersDark) == IF prefersDark THEN "dark" ELSE "light"

getCurrentTheme == theme

\* the theme the toggle handlers switch to
Flip(t) == IF t = "light" THEN "dark" ELSE "light"

\* label computed by updateToggleUI
Label(t) == IF t = "light" THEN "Switch to dark mode" ELSE "Switch to light mode"

updateToggleUI(t, tog) ==
  toggleLabel' = IF tog = "null" THEN toggleLabel ELSE Label(t)

applyTheme_NoPersist(t, tog) ==
  /\ dataTheme' = t
  /\ stored' = stored
  /\ theme' = t
  /\ updateToggleUI(t, tog)
  /\ dispatched' = <<[theme |-> t]>>

applyTheme_NoDispatch(t, tog) ==
  /\ dataTheme' = t
  /\ stored' = t
  /\ theme' = t
  /\ updateToggleUI(t, tog)
  /\ dispatched' = <<>>

\* applyTheme(theme), run while this.toggle has the value tog
applyTheme(t, tog) ==
  /\ dataTheme' = t
  /\ stored' = t
  /\ theme' = t
  /\ updateToggleUI(t, tog)
  /\ dispatched' = <<[theme |-> t]>>

\* history: handler op starts in the current state
Record(op) ==
  LET t == Append(trail, [op |-> op, theme |-> theme, stored |-> stored])
  IN trail' = IF Len(t) > 2 THEN Tail(t) ELSE t

\* the page before the module has run
ThemeInit ==
  /\ tsPc = "loading"
  /\ theme = Undefined
  /\ dataTheme = NoItem
  /\ stored \in StoredValues
  /\ osDark \in BOOLEAN
  /\ toggleEl \in BOOLEAN
  /\ toggle = "null"
  /\ toggleLabel = "<markup>"
  /\ toggleTransform = ""
  /\ feedbackTimer = FALSE
  /\ mqApi \in MqApis
  /\ dispatched = <<>>
  /\ errors = 0
  /\ lastOp = [op |-> "none", arg |-> NoItem]
  /\ startAbsent = FALSE
  /\ explicitChoice = FALSE
  /\ trail = <<>>

\* new ThemeSwitcher(): constructor, then init() = applyTheme, setupToggle,
\* watchSystemTheme
Construct ==
  /\ tsPc = "loading"
  /\ tsPc' = "ready"
  /\ LET t == IF Truthy(getStoredTheme) THEN getStoredTheme
                                        ELSE getPreferredTheme(osDark)
     IN applyTheme(t, "null")
  /\ toggle' = IF toggleEl THEN "button" ELSE "null"
  /\ errors' = 0
  /\ lastOp' = [op |-> "construct", arg |-> stored]
  /\ Record("construct")
  /\ startAbsent' = (stored = NoItem)
  /\ UNCHANGED <<osDark, toggleEl, toggleTransform, feedbackTimer, mqApi,
                 explicitChoice>>

\* the click listener installed by setupToggle
ToggleClick ==
  /\ tsPc = "ready"
  /\ toggle = "button"
  /\ applyTheme(Flip(theme), toggle)
  /\ toggleTransform' = "scale(0.95)"
  /\ feedbackTimer' = TRUE
  /\ errors' = 0
  /\ lastOp' = [op |-> "click", arg |-> NoItem]
  /\ Record("click")
  /\ explicitChoice' = TRUE
  /\ UNCHANGED <<tsPc, osDark, toggleEl, toggle, mqApi, startAbsent>>

\* the keydown listener installed by setupToggle: Enter and Space click
ToggleKeydown(key) ==
  /\ tsPc = "ready"
  /\ toggle = "button"
  /\ IF key = "Enter" \/ key = " "
       THEN /\ applyTheme(Flip(theme), toggle)
            /\ toggleTransform' = "scale(0.95)"
            /\ feedbackTimer' = TRUE
            /\ explicitChoice' = TRUE
       ELSE /\ dispatched' = <<>>
            /\ UNCHANGED <<dataTheme, stored, theme, toggleLabel,
                           toggleTransform, feedbackTimer, explicitChoice>>
  /\ errors' = 0
  /\ lastOp' = [op |-> "keydown", arg |-> key]
  /\ Record("keydown")
  /\ UNCHANGED <<tsPc, osDark, toggleEl, toggle, mqApi, startAbsent>>

\* the 100 ms timeout of the click listener
FeedbackTimeout ==
  /\ feedbackTimer
  /\ feedbackTimer' = FALSE
  /\ toggleTransform' = "scale(1)"
  /\ dispatched' = <<>>
  /\ errors' = 0
  /\ lastOp' = [op |-> "feedbackTimeout", arg |-> NoItem]
  /\ Record("feedbackTimeout")
  /\ UNCHANGED <<tsPc, theme, dataTheme, stored, osDark, toggleEl, toggle,
                 toggleLabel, mqApi, startAbsent, explicitChoice>>

setTheme_NoValidation(x) ==
  /\ tsPc = "ready"
  /\ applyTheme(x, toggle)
  /\ errors' = 0
  /\ explicitChoice' = TRUE
  /\ lastOp' = [op |-> "setTheme", arg |-> x]
  /\ Record("setTheme")
  /\ UNCHANGED <<tsPc, osDark, toggleEl, toggle, toggleTransform,
                 feedbackTimer, mqApi, startAbsent>>

setTheme(x) ==
  /\ tsPc = "ready"
  /\ IF x = "light" \/ x = "dark"
       THEN /\ applyTheme(x, toggle)
            /\ errors' = 0
            /\ explicitChoice' = TRUE
       ELSE /\ errors' = 1
            /\ dispatched' = <<>>
            /\ UNCHANGED <<dataTheme, stored, theme, toggleLabel,
                           explicitChoice>>
  /\ lastOp' = [op |-> "setTheme", arg |-> x]
  /\ Record("setTheme")
  /\ UNCHANGED <<tsPc, osDark, toggleEl, toggle, toggleTransform,
                 feedbackTimer, mqApi, startAbsent>>

toggleTheme ==
  /\ tsPc = "ready"
  /\ applyTheme(Flip(theme), toggle)
  /\ errors' = 0
  /\ explicitChoice' = TRUE
  /\ lastOp' = [op |-> "toggleTheme", arg |-> NoItem]
  /\ Record("toggleTheme")
  /\ UNCHANGED <<tsPc, osDark, toggleEl, toggle, toggleTransform,
                 feedbackTimer, mqApi, startAbsent>>

\* localStorage.removeItem('theme'), then applyTheme(getPreferredTheme())
resetToSystemPreference ==
  /\ tsPc = "ready"
  /\ applyTheme(getPreferredTheme(osDark), toggle)
  /\ errors' = 0
  /\ explicitChoice' = TRUE
  /\ lastOp' = [op |-> "reset", arg |-> NoItem]
  /\ Record("reset")
  /\ UNCHANGED <<tsPc, osDark, toggleEl, toggle, toggleTransform,
                 feedbackTimer, mqApi, startAbsent>>

\* the OS colour scheme changes; the 'change' listener of watchSystemTheme
\* runs when the switcher has registered one
SystemThemeChange ==
  /\ osDark' = ~osDark
  /\ IF tsPc = "ready" /\ mqApi /= "none" /\ ~Truthy(getStoredTheme)
       THEN applyTheme(IF osDark' THEN "dark" ELSE "light", toggle)
       ELSE /\ dispatched' = <<>>
            /\ UNCHANGED <<dataTheme, stored, theme, toggleLabel>>
  /\ errors' = 0
  /\ lastOp' = [op |-> "osChange", arg |-> NoItem]
  /\ Record("osChange")
  /\ UNCHANGED <<tsPc, toggleEl, toggle, toggleTransform, feedbackTimer,
                 mqApi, startAbsent, explicitChoice>>

ThemeNext ==
  \/ Construct
  \/ ToggleClick
  \/ \E key \in Keys : ToggleKeydown(key)
  \/ FeedbackTimeout
  \/ \E x \in ThemeArgs : setTheme(x)
  \/ toggleTheme
  \/ resetToSystemPreference
  \/ SystemThemeChange


(***************************************************************************)
(* ScrollAnimations                                                        *)
(***************************************************************************)

\* an array item that is not an HTMLElement
NotElement == 0

\* element.style.transitionDelay: <<>> is '', <<i>> is `${i * 0.1}s`
NoDelay == <<>>

\* A document lists its elements in document order: the parent of each
\* (0 for none) and whether it carries data-animate and data-stagger.

\* a stagger container with two animated children
DocFlatGroup ==
  [parent  |-> <<0, 1, 1>>,
   animate |-> <<FALSE, TRUE, TRUE>>,
   stagger |-> <<TRUE, FALSE, FALSE>>]

\* a stagger container holding a nested stagger container that is a target
\* itself and holds a target
DocNested ==
  [parent  |-> <<0, 1, 2>>,
   animate |-> <<FALSE, TRUE, TRUE>>,
   stagger |-> <<TRUE, TRUE, FALSE>>]

\* a stagger container with an unmarked child, and a target outside any group
DocMixed ==
  [parent  |-> <<0, 1, 0>>,
   animate |-> <<FALSE, FALSE, TRUE>>,
   stagger |-> <<TRUE, FALSE, FALSE>>]

Docs == {DocFlatGroup, DocNested, DocMixed}

\* the elements of document d
Elems(d) == 1..Len(d.parent)

RECURSIVE AncestorsOrSelf(_, _)
AncestorsOrSelf(d, e) ==
  IF e = 0 THEN {} ELSE {e} \cup AncestorsOrSelf(d, d.parent[e])

Descendants(d, root) ==
  IF root = 0 THEN Elems(d)
  ELSE {x \in Elems(d) : x /= root /\ root \in AncestorsOrSelf(d, x)}

Min(S) == CHOOSE m \in S : \A x \in S : m <= x

\* the elements of S as a list in document order
RECURSIVE InDocOrder(_)
InDocOrder(S) ==
  IF S = {} THEN <<>> ELSE <<Min(S)>> \o InDocOrder(S \ {Min(S)})

\* root.querySelectorAll('[data-animate]'); root 0 is the document
querySelectorAll(d, root) ==
  InDocOrder({x \in Descendants(d, root) : d.animate[x]})

\* element.closest('[data-stagger]'): the element itself or its nearest
\* ancestor that carries the marker; 0 is null
RECURSIVE closest(_, _)
closest(d, e) ==
  IF e = 0 THEN 0
  ELSE IF d.stagger[e] THEN e
  ELSE closest(d, d.parent[e])

\* Array.prototype.indexOf, 0-based, -1 when absent
indexOf(seq, x) ==
  LET I == {i \in 1..Len(seq) : seq[i] = x}
  IN IF I = {} THEN -1 ELSE Min(I) - 1

Range(seq) == {seq[i] : i \in 1..Len(seq)}

\* transitionDelay assigned by animateElement, in units of 0.1 s
staggerDelay_OneBased(d, el) ==
  LET parent == closest(d, el)
  IN IF parent = 0 THEN NoDelay
     ELSE <<indexOf(querySelectorAll(d, parent), el) + 1>>

staggerDelay(d, el) ==
  LET parent == closest(d, el)
  IN IF parent = 0 THEN NoDelay
     ELSE <<indexOf(querySelectorAll(d, parent), el)>>

\* the part of the state a callback of the observer works on
CallbackState ==
  [visible |-> visible, delay |-> delay, observed |-> observed,
   animatedCount |-> animatedCount, lastExit |-> lastExit]

\* animateElement(element); its 1000 ms timeout is the action DelayReset
animateElement(s, el) ==
  LET dl == staggerDelay(doc, el)
  IN [s EXCEPT !.delay[el] = IF dl = NoDelay THEN @ ELSE dl,
               !.visible[el] = TRUE,
               !.animatedCount[el] = IF @ < 2 THEN @ + 1 ELSE 2]

handleEntry_NoUnobserve(s, entry) ==
  IF entry.isIntersecting
    THEN animateElement(s, entry.target)
    ELSE LET s1 == [s EXCEPT !.lastExit = IF s.visible[entry.target]
                                             THEN entry.target ELSE @]
         IN IF ~once
              THEN [s1 EXCEPT !.visible[entry.target] = FALSE]
              ELSE s1

handleEntry_AlwaysRemove(s, entry) ==
  IF entry.isIntersecting
    THEN LET s1 == animateElement(s, entry.target)
         IN IF once THEN [s1 EXCEPT !.observed = @ \ {entry.target}]
                    ELSE s1
    ELSE [s EXCEPT !.visible[entry.target] = FALSE,
                   !.lastExit = IF s.visible[entry.target] THEN entry.target
                                                           ELSE @]

\* the body of the forEach of handleIntersection
handleEntry(s, entry) ==
  IF entry.isIntersecting
    THEN LET s1 == animateElement(s, entry.target)
         IN IF once THEN [s1 EXCEPT !.observed = @ \ {entry.target}]
                    ELSE s1
    ELSE LET s1 == [s EXCEPT !.lastExit = IF s.visible[entry.target]
                                             THEN entry.target ELSE @]
         IN IF ~once
              THEN [s1 EXCEPT !.visible[entry.target] = FALSE]
              ELSE s1

RECURSIVE handleIntersection(_, _)
handleIntersection(s, entries) ==
  IF entries = <<>> THEN s
  ELSE handleIntersection(handleEntry(s, Head(entries)), Tail(entries))

\* the markup, the options and the browser before new ScrollAnimations()
RevealInit ==
  /\ saPc = "new"
  /\ doc \in Docs
  /\ once \in BOOLEAN
  /\ reducedMotion \in BOOLEAN
  /\ ioSupported \in BOOLEAN
  /\ observer = FALSE
  /\ observed = {}
  /\ elements = <<>>
  /\ visible = [e \in Elems(doc) |-> FALSE]
  /\ shown = [e \in Elems(doc) |-> FALSE]
  /\ delay = [e \in Elems(doc) |-> NoDelay]
  /\ animatedCount = [e \in Elems(doc) |-> 0]
  /\ lastExit = 0
  /\ ignored = {}

\* showAllElements()
showAllElements ==
  /\ visible' = [e \in Elems(doc) |-> IF doc.animate[e] THEN TRUE ELSE visible[e]]
  /\ shown' = [e \in Elems(doc) |-> IF doc.animate[e] THEN TRUE ELSE shown[e]]

\* observeElements()
observeElements ==
  /\ elements' = querySelectorAll(doc, 0)
  /\ observed' = Range(querySelectorAll(doc, 0))

SAConstruct_IgnoresReducedMotion ==
  /\ saPc = "new"
  /\ saPc' = "ready"
  /\ IF ~ioSupported
       THEN /\ showAllElements
            /\ UNCHANGED <<observer, observed, elements>>
       ELSE /\ observer' = TRUE
            /\ observeElements
            /\ UNCHANGED <<visible, shown>>
  /\ UNCHANGED <<doc, once, reducedMotion, ioSupported, delay, animatedCount,
                 lastExit, ignored>>

\* new ScrollAnimations(options): constructor and init()
SAConstruct ==
  /\ saPc = "new"
  /\ saPc' = "ready"
  /\ IF reducedMotion \/ ~ioSupported
       THEN /\ showAllElements
            /\ UNCHANGED <<observer, observed, elements>>
       ELSE /\ observer' = TRUE
            /\ observeElements
            /\ UNCHANGED <<visible, shown>>
  /\ UNCHANGED <<doc, once, reducedMotion, ioSupported, delay, animatedCount,
                 lastExit, ignored>>


\* largest number of records the observer delivers in one callback
MaxEntries == 1

\* largest length of this.elements
MaxTracked == 2

IntersectionEntries ==
  [target : Elems(doc), isIntersecting : BOOLEAN]

\* the batches of records the browser can deliver: records of targets that
\* are observed when the batch is taken, one target possibly more than once
EntryBatches ==
  UNION {[1..n -> {r \in IntersectionEntries : r.target \in observed}] :
           n \in 1..MaxEntries}

\* the browser calls handleIntersection(entries)
IntersectionCallback(entries) ==
  /\ saPc = "ready"
  /\ observer
  /\ LET s == handleIntersection(CallbackState, entries)
     IN /\ visible' = s.visible
        /\ delay' = s.delay
        /\ observed' = s.observed
        /\ animatedCount' = s.animatedCount
        /\ lastExit' = s.lastExit
  /\ UNCHANGED <<saPc, doc, once, reducedMotion, ioSupported, observer,
                 elements, shown, ignored>>

\* the 1000 ms timeout of animateElement; a timeout is pending whenever a
\* delay is set, and one that finds the delay already cleared changes nothing
DelayReset(e) ==
  /\ delay[e] /= NoDelay
  /\ delay' = [delay EXCEPT ![e] = NoDelay]
  /\ UNCHANGED <<saPc, doc, once, reducedMotion, ioSupported, observer,
                 observed, elements, visible, shown, animatedCount, lastExit,
                 ignored>>

\* arguments of observe(): a list of array items (a selector is the list it
\* matches, an element the list of itself, any other value the empty list)
ObserveArgs ==
  {<<>>} \cup {<<x>> : x \in Elems(doc) \cup {NotElement}}
         \cup {<<NotElement, x>> : x \in Elems(doc)}

\* the items of arr that are HTMLElements
RECURSIVE HTMLElements(_)
HTMLElements(arr) ==
  IF arr = <<>> THEN <<>>
  ELSE IF Head(arr) = NotElement THEN HTMLElements(Tail(arr))
  ELSE <<Head(arr)>> \o HTMLElements(Tail(arr))

\* observe(elements)
Observe(arr) ==
  /\ saPc = "ready"
  /\ IF ~observer
       THEN UNCHANGED <<observed, elements>>
       ELSE /\ Len(elements) + Len(HTMLElements(arr)) <= MaxTracked
            /\ observed' = observed \cup Range(HTMLElements(arr))
            /\ elements' = elements \o HTMLElements(arr)
  /\ ignored' = IF ~observer THEN ignored \cup Range(HTMLElements(arr))
                ELSE ignored
  /\ UNCHANGED <<saPc, doc, once, reducedMotion, ioSupported, observer,
                 visible, shown, delay, animatedCount, lastExit>>

\* refresh(): disconnect() empties the observation targets (and drops the
\* records not yet delivered), observeElements() scans the document again
Refresh ==
  /\ saPc = "ready"
  /\ IF ~observer
       THEN UNCHANGED <<observed, elements>>
       ELSE observeElements
  /\ UNCHANGED <<saPc, doc, once, reducedMotion, ioSupported, observer,
                 visible, shown, delay, animatedCount, lastExit, ignored>>

\* destroy()
Destroy ==
  /\ saPc = "ready"
  /\ observed' = {}
  /\ observer' = FALSE
  /\ elements' = <<>>
  /\ UNCHANGED <<saPc, doc, once, reducedMotion, ioSupported, visible, shown,
                 delay, animatedCount, lastExit, ignored>>

RevealNext ==
  \/ SAConstruct
  \/ \E entries \in EntryBatches : IntersectionCallback(entries)
  \/ \E e \in Elems(doc) : DelayReset(e)
  \/ \E arr \in ObserveArgs : Observe(arr)
  \/ Refresh
  \/ Destroy

(***************************************************************************)
(* ParticleBackground                                                      *)
(***************************************************************************)

\* animationId === null / undefined; requestAnimationFrame handles are > 0
NoHandle == 0

\* this.fpsInterval while the constructor has not assigned it
NoInterval == 0

\* largest gap between two frame callbacks, in time units
MaxDt == 2

\* sinceDraw while no redraw has happened
NoGap == -1

\* the frame handles the browser hands out
MaxHandle == 3

Handles == 1 .. MaxHandle

\* viewport sizes <<innerWidth, innerHeight>> the window takes
WindowSizes == {<<1, 2>>, <<2, 1>>}

\* the values of options.particleCount passed by the page
ParticleCounts == {1, 2}

\* 1000 / options.fps in time units
FpsIntervals == {2, 3}

\* speedX / speedY of a particle; the bounds of the source are widened so
\* that one step can cross the whole surface
Speeds == {-2, 1}

\* the particles createParticles() can draw for a w x h surface:
\* Math.random() * w lies in [0, w)
NewParticles(w, h) ==
  [x : 0 .. (w - 1), y : 0 .. (h - 1), speedX : Speeds, speedY : Speeds]

createParticles_OneMore(n, w, h) == [1 .. (n + 1) -> NewParticles(w, h)]

createParticles(n, w, h) == [1 .. n -> NewParticles(w, h)]

updateParticle_NoUpperWrap(p, w, h) ==
  LET x1 == p.x + p.speedX
      y1 == p.y + p.speedY
  IN  [p EXCEPT !.x = IF x1 < 0 THEN w ELSE x1,
                !.y = IF y1 < 0 THEN h ELSE y1]

updateParticle(p, w, h) ==
  LET x1 == p.x + p.speedX
      y1 == p.y + p.speedY
      x2 == IF x1 < 0 THEN w ELSE x1
      x3 == IF x2 > w THEN 0 ELSE x2
      y2 == IF y1 < 0 THEN h ELSE y1
      y3 == IF y2 > h THEN 0 ELSE y2
  IN  [p EXCEPT !.x = x3, !.y = y3]

particleCalls_DrawFirst(p, i, w, h) ==
  <<[op |-> "draw", i |-> i, x |-> p.x, y |-> p.y],
    [op |-> "update", i |-> i,
     x |-> updateParticle(p, w, h).x, y |-> updateParticle(p, w, h).y]>>

\* the body of the forEach callback of draw() for particle i:
\* this.updateParticle(particle); this.drawParticle(particle).  Each call is
\* recorded with the position the particle has when the call returns.
particleCalls(p, i, w, h) ==
  <<[op |-> "update", i |-> i,
     x |-> updateParticle(p, w, h).x, y |-> updateParticle(p, w, h).y],
    [op |-> "draw", i |-> i,
     x |-> updateParticle(p, w, h).x, y |-> updateParticle(p, w, h).y]>>

\* this.particles.forEach(...): the calls for the particles from index i on
RECURSIVE forEachParticle(_, _, _, _)
forEachParticle(ps, i, w, h) ==
  IF i > Len(ps) THEN <<>>
  ELSE particleCalls(ps[i], i, w, h) \o forEachParticle(ps, i + 1, w, h)

\* the particle batch after draw()
draw(ps, w, h) == [i \in DOMAIN ps |-> updateParticle(ps[i], w, h)]

\* a function object: the method and the place where bind() produced it;
\* every evaluation of x.bind(this) yields a function of its own
Bind(method, site) == [method |-> method, site |-> site]

addEventListener(ls, type, fn) == ls \cup {[type |-> type, fn |-> fn]}

removeEventListener(ls, type, fn) == ls \ {[type |-> type, fn |-> fn]}

\* the handlers an event of the given type invokes
Handlers(ls, type) == {l.fn.method : l \in {k \in ls : k.type = type}}

\* a handle the browser has not handed out to a pending callback
NewHandle == CHOOSE h \in Handles : h \notin rafPending /\ h # animationId

animate_NoThrottle(pending, elapsed) ==
  LET redraw == fpsInterval # NoInterval /\ elapsed > 0
  IN  /\ animationId' = NewHandle
      /\ rafPending' = pending \cup {NewHandle}
      /\ sinceThen' = IF fpsInterval = NoInterval THEN 0
                      ELSE IF redraw THEN elapsed % fpsInterval ELSE elapsed
      /\ pbDrew' = redraw
      /\ particles' = IF redraw THEN draw(particles, canvasW, canvasH)
                      ELSE particles
      /\ pbCalls' = IF redraw
                    THEN forEachParticle(particles, 1, canvasW, canvasH)
                    ELSE <<>>

\* animate(): schedule the next frame, then redraw if the interval is over
animate(pending, elapsed) ==
  LET redraw == fpsInterval # NoInterval /\ elapsed > fpsInterval
  IN  /\ animationId' = NewHandle
      /\ rafPending' = pending \cup {NewHandle}
      /\ sinceThen' = IF fpsInterval = NoInterval THEN 0
                      ELSE IF redraw THEN elapsed % fpsInterval ELSE elapsed
      /\ pbDrew' = redraw
      /\ particles' = IF redraw THEN draw(particles, canvasW, canvasH)
                      ELSE particles
      /\ pbCalls' = IF redraw
                    THEN forEachParticle(particles, 1, canvasW, canvasH)
                    ELSE <<>>

pause_NoCancel(id, pending) ==
  [animationId |-> NoHandle, rafPending |-> pending]

\* pause(): cancelAnimationFrame(this.animationId); this.animationId = null
pause(id, pending) ==
  IF id # NoHandle
  THEN [animationId |-> NoHandle, rafPending |-> pending \ {id}]
  ELSE [animationId |-> id, rafPending |-> pending]

ParticleInit ==
  /\ pbPc = "new"
  /\ \E size \in WindowSizes : innerWidth = size[1] /\ innerHeight = size[2]
  /\ canvasW = 0
  /\ canvasH = 0
  /\ particleCount = 0
  /\ fpsInterval = NoInterval
  /\ particles = <<>>
  /\ animationId = NoHandle
  /\ rafPending = {}
  /\ sinceThen = 0
  /\ pbListeners = {}
  /\ pbInvoked = "none"
  /\ pbDrew = FALSE
  /\ pbThrown = FALSE
  /\ pbDestroyed = 0
  /\ pbCalls = <<>>
  /\ sinceDraw = NoGap

\* new ParticleBackground(canvasId, {particleCount: n, fps: 1000 / interval})
PBConstruct(canvas, n, interval) ==
  /\ pbPc = "new"
  /\ pbInvoked' = "none"
  /\ pbThrown' = FALSE
  /\ pbDestroyed' = 0
  /\ pbCalls' = <<>>
  /\ UNCHANGED <<innerWidth, innerHeight>>
  /\ IF ~canvas
     THEN /\ pbPc' = "nocanvas"
          /\ UNCHANGED <<canvasW, canvasH, particleCount, fpsInterval,
                         particles, animationId, rafPending, sinceThen,
                         pbListeners, pbDrew>>
     ELSE /\ pbPc' = "ready"
          /\ particleCount' = n
          /\ fpsInterval' = interval
          /\ canvasW' = innerWidth
          /\ canvasH' = innerHeight
          /\ pbListeners' =
               addEventListener(
                 addEventListener(pbListeners, "resize", Bind("resize", "init")),
                 "themechange", Bind("handleThemeChange", "init"))
          /\ particles' \in createParticles(n, innerWidth, innerHeight)
          /\ animationId' = NewHandle
          /\ rafPending' = {NewHandle}
          /\ sinceThen' = 0
          /\ pbDrew' = FALSE

\* the browser runs a scheduled frame callback, dt after the previous one
Frame(dt) ==
  /\ pbPc # "new"
  /\ \E id \in rafPending :
       animate(rafPending \ {id}, sinceThen + dt)
  /\ pbInvoked' = "none"
  /\ pbThrown' = FALSE
  /\ UNCHANGED <<pbPc, innerWidth, innerHeight, canvasW, canvasH,
                 particleCount, fpsInterval, pbListeners, pbDestroyed>>

\* the viewport changes size; resize() runs if a listener is registered
ResizeEvent(size) ==
  /\ size # <<innerWidth, innerHeight>>
  /\ innerWidth' = size[1]
  /\ innerHeight' = size[2]
  /\ pbDrew' = FALSE
  /\ pbThrown' = FALSE
  /\ IF "resize" \in Handlers(pbListeners, "resize")
     THEN /\ pbInvoked' = "resize"
          /\ canvasW' = size[1]
          /\ canvasH' = size[2]
          /\ IF Len(particles) > 0
             THEN particles' \in createParticles(particleCount, size[1], size[2])
             ELSE UNCHANGED particles
     ELSE /\ pbInvoked' = "none"
          /\ UNCHANGED <<canvasW, canvasH, particles>>
  /\ pbCalls' = <<>>
  /\ UNCHANGED <<pbPc, particleCount, fpsInterval, animationId, rafPending,
                 sinceThen, pbListeners, pbDestroyed>>

\* a 'themechange' event is dispatched on window
ThemeChangeEvent ==
  /\ pbPc # "new"
  /\ pbInvoked' = IF "handleThemeChange" \in Handlers(pbListeners, "themechange")
                  THEN "handleThemeChange" ELSE "none"
  /\ pbDrew' = FALSE
  /\ pbThrown' = FALSE
  /\ UNCHANGED <<pbPc, innerWidth, innerHeight, canvasW, canvasH,
                 particleCount, fpsInterval, particles, animationId,
                 rafPending, sinceThen, pbListeners, pbDestroyed>>
  /\ pbCalls' = <<>>

Pause ==
  /\ pbPc # "new"
  /\ animationId' = pause(animationId, rafPending).animationId
  /\ rafPending' = pause(animationId, rafPending).rafPending
  /\ pbInvoked' = "none"
  /\ pbDrew' = FALSE
  /\ pbThrown' = FALSE
  /\ UNCHANGED <<pbPc, innerWidth, innerHeight, canvasW, canvasH,
                 particleCount, fpsInterval, particles, sinceThen,
                 pbListeners, pbDestroyed>>
  /\ pbCalls' = <<>>

Resume_Unguarded ==
  /\ pbPc # "new"
  /\ animate(rafPending, 0)
  /\ pbInvoked' = "none"
  /\ pbThrown' = FALSE
  /\ pbDestroyed' = 0
  /\ UNCHANGED <<pbPc, innerWidth, innerHeight, canvasW, canvasH,
                 particleCount, fpsInterval, pbListeners>>

\* resume(): if (!this.animationId) { this.then = Date.now(); this.animate() }
Resume ==
  /\ pbPc # "new"
  /\ IF animationId = NoHandle
     THEN animate(rafPending, 0)
     ELSE /\ pbDrew' = FALSE
          /\ pbCalls' = <<>>
          /\ UNCHANGED <<animationId, rafPending, sinceThen, particles>>
  /\ pbInvoked' = "none"
  /\ pbThrown' = FALSE
  /\ pbDestroyed' = 0
  /\ UNCHANGED <<pbPc, innerWidth, innerHeight, canvasW, canvasH,
                 particleCount, fpsInterval, pbListeners>>

PBDestroy ==
  /\ pbPc # "new"
  /\ animationId' = pause(animationId, rafPending).animationId
  /\ rafPending' = pause(animationId, rafPending).rafPending
  /\ pbListeners' =
       removeEventListener(
         removeEventListener(pbListeners, "resize", Bind("resize", "destroy")),
         "themechange", Bind("handleThemeChange", "destroy"))
  /\ particles' = <<>>
  /\ pbInvoked' = "none"
  /\ pbDrew' = FALSE
  /\ pbThrown' = FALSE
  /\ pbDestroyed' = IF pbDestroyed < 2 THEN pbDestroyed + 1 ELSE 2
  /\ pbCalls' = <<>>
  /\ UNCHANGED <<pbPc, innerWidth, innerHeight, canvasW, canvasH,
                 particleCount, fpsInterval, sinceThen>>

\* updateOptions({particleCount: n}); without a canvas createParticles()
\* reads this.canvas.width of null as soon as its loop body runs
UpdateOptions(n) ==
  /\ pbPc # "new"
  /\ particleCount' = n
  /\ IF n = 0
     THEN /\ pbThrown' = FALSE
          /\ UNCHANGED particles
     ELSE IF pbPc = "nocanvas"
     THEN /\ pbThrown' = TRUE
          /\ particles' = <<>>
     ELSE /\ pbThrown' = FALSE
          /\ particles' \in createParticles(n, canvasW, canvasH)
  /\ pbInvoked' = "none"
  /\ pbDrew' = FALSE
  /\ UNCHANGED <<pbPc, innerWidth, innerHeight, canvasW, canvasH,
                 fpsInterval, animationId, rafPending, sinceThen,
                 pbListeners, pbDestroyed>>
  /\ pbCalls' = <<>>

ParticleNext ==
  \/ \E canvas \in BOOLEAN, n \in ParticleCounts, interval \in FpsIntervals :
       PBConstruct(canvas, n, interval)
  \/ \E dt \in 1 .. MaxDt : Frame(dt)
  \/ \E size \in WindowSizes : ResizeEvent(size)
  \/ ThemeChangeEvent
  \/ Pause
  \/ Resume
  \/ PBDestroy
  \/ \E n \in ParticleCounts \cup {0} : UpdateOptions(n)

(***************************************************************************)
(* Fireflies (src/js/fireflies.js)                                         *)
(***************************************************************************)

\* size of the firefly pool (18 in the source)
COUNT == 2

\* positions are in vw / vh on a grid of 55, the pulse phase in quarter
\* periods of sin^2, opacities in thousandths (toFixed(3))
WrapLow == -5

WrapHigh == 105

StartPosition == 50

\* 0.15 + 0.55 * sin(phase)^2 at the four quarter periods
Glow(phase) == <<150, 425, 700, 425>>[(phase % 4) + 1]

\* the random drift (per time unit), start phase and pulse speed of a firefly
FireflyKinds ==
  { [dx |->  55, dy |-> -55, phase |-> 0, speed |-> 1],
    [dx |-> -55, dy |->  55, phase |-> 1, speed |-> 2],
    [dx |->  55, dy |->  55, phase |-> 3, speed |-> 1] }

isDark == dataTheme = "dark"

createFirefly(k) ==
  [x |-> StartPosition, y |-> StartPosition, dx |-> k.dx, dy |-> k.dy,
   phase |-> k.phase, speed |-> k.speed, opacity |-> 0]

animateFirefly_KeepsGlowWhenDark(f, dark, dt) ==
  IF dark THEN f
  ELSE LET x1 == f.x + f.dx * dt
           y1 == f.y + f.dy * dt
           x2 == IF x1 < WrapLow THEN WrapHigh ELSE x1
           x3 == IF x2 > WrapHigh THEN WrapLow ELSE x2
           y2 == IF y1 < WrapLow THEN WrapHigh ELSE y1
           y3 == IF y2 > WrapHigh THEN WrapLow ELSE y2
           ph == (f.phase + f.speed * dt) % 4
       IN  [f EXCEPT !.x = x3, !.y = y3, !.phase = ph, !.opacity = Glow(ph)]

\* the body of the loop over the fireflies in animate()
animateFirefly(f, dark, dt) ==
  IF dark THEN [f EXCEPT !.opacity = 0]
  ELSE LET x1 == f.x + f.dx * dt
           y1 == f.y + f.dy * dt
           x2 == IF x1 < WrapLow THEN WrapHigh ELSE x1
           x3 == IF x2 > WrapHigh THEN WrapLow ELSE x2
           y2 == IF y1 < WrapLow THEN WrapHigh ELSE y1
           y3 == IF y2 > WrapHigh THEN WrapLow ELSE y2
           ph == (f.phase + f.speed * dt) % 4
       IN  [f EXCEPT !.x = x3, !.y = y3, !.phase = ph, !.opacity = Glow(ph)]

FireflyInit ==
  /\ ffPc = "loading"
  /\ fireflies = <<>>
  /\ ffPending = FALSE
  /\ lastTimeSet = FALSE
  /\ ffPolled = FALSE

\* init(), directly or on DOMContentLoaded
FFInit(kinds) ==
  /\ ffPc = "loading"
  /\ ffPc' = "running"
  /\ fireflies' = [i \in 1 .. COUNT |-> createFirefly(kinds[i])]
  /\ ffPending' = TRUE
  /\ UNCHANGED <<lastTimeSet, ffPolled, dataTheme>>

\* the browser runs the scheduled animate(time), gap after the previous
\* frame; on the first frame lastTime is set to time and dt is 0
FFAnimate(gap) ==
  /\ ffPending
  /\ LET dt == IF lastTimeSet THEN gap ELSE 0
     IN  fireflies' = [i \in DOMAIN fireflies |->
                         animateFirefly(fireflies[i], isDark, dt)]
  /\ lastTimeSet' = TRUE
  /\ ffPolled' = TRUE
  /\ ffPending' = TRUE
  /\ UNCHANGED <<ffPc, dataTheme>>

\* the theme switcher sets the root marker (applyTheme)
DataThemeChange(t) ==
  /\ t # dataTheme
  /\ dataTheme' = t
  /\ ffPolled' = FALSE
  /\ UNCHANGED <<ffPc, fireflies, ffPending, lastTimeSet>>

FireflyNext ==
  \/ \E kinds \in [1 .. COUNT -> FireflyKinds] : FFInit(kinds)
  \/ \E gap \in 1 .. MaxDt : FFAnimate(gap)
  \/ \E t \in {"light", "dark"} : DataThemeChange(t)

(***************************************************************************)
(* Shooting stars (src/js/shooting-stars.js); one time unit is 100 ms      *)
(***************************************************************************)

\* no timer of scheduleNext is pending
NoTimer == -1

\* spawn callbacks and created stars are counted up to this number
MaxSpawns == 2

\* the 40 small and the 15 bright background dots
SmallDots == 40

BrightDots == 15

\* setTimeout(..., 1500) of the initialisation
FirstSpawnDelay == 15

\* the 100 ms added to the duration in the removal timeout
Grace == 1

\* duration = 0.8 + Math.random() * 0.4 seconds
Durations == {8, 10, 11}

\* delay = 3000 + Math.random() * 3000 milliseconds
SpawnDelays == {30, 45, 59}

Bump(c) == IF c < MaxSpawns THEN c + 1 ELSE MaxSpawns

createShootingStar_Twice(ss, n, duration) ==
  [stars |-> ss \o << [age |-> 0, life |-> duration + Grace],
                      [age |-> 0, life |-> duration + Grace] >>,
   created |-> Bump(Bump(n))]

\* createShootingStar(): append the element and set its removal timeout
createShootingStar(ss, n, duration) ==
  [stars |-> Append(ss, [age |-> 0, life |-> duration + Grace]),
   created |-> Bump(n)]

RemoveAt(seq, i) ==
  [j \in 1 .. (Len(seq) - 1) |-> IF j < i THEN seq[j] ELSE seq[j + 1]]

StarInit ==
  /\ ssPc = "loading"
  /\ ssContainer \in BOOLEAN
  /\ starDots = 0
  /\ spawnTimer = NoTimer
  /\ stars = <<>>
  /\ spawns = 0
  /\ created = 0

\* the script runs: container lookup, background dots, first timeout
SSStart ==
  /\ ssPc = "loading"
  /\ IF ~ssContainer
     THEN /\ ssPc' = "nocontainer"
          /\ UNCHANGED <<starDots, spawnTimer>>
     ELSE /\ ssPc' = "running"
          /\ starDots' = SmallDots + BrightDots
          /\ spawnTimer' = FirstSpawnDelay
  /\ UNCHANGED <<ssContainer, stars, spawns, created>>

\* the spawn timeout fires: createShootingStar(); scheduleNext()
SpawnCallback(duration, wait) ==
  /\ spawnTimer = 0
  /\ stars' = createShootingStar(stars, created, duration).stars
  /\ created' = createShootingStar(stars, created, duration).created
  /\ spawns' = Bump(spawns)
  /\ spawnTimer' = wait
  /\ UNCHANGED <<ssPc, ssContainer, starDots>>

\* the removal timeout of a star fires: star.remove()
RemoveStar ==
  /\ \E i \in DOMAIN stars :
       /\ stars[i].age = stars[i].life
       /\ stars' = RemoveAt(stars, i)
  /\ UNCHANGED <<ssPc, ssContainer, starDots, spawnTimer, spawns, created>>

\* 100 ms pass; a timeout that is due fires before time moves on
StarTick ==
  /\ ssPc = "running"
  /\ spawnTimer > 0
  /\ \A i \in DOMAIN stars : stars[i].age < stars[i].life
  /\ spawnTimer' = spawnTimer - 1
  /\ stars' = [i \in DOMAIN stars |-> [stars[i] EXCEPT !.age = @ + 1]]
  /\ UNCHANGED <<ssPc, ssContainer, starDots, spawns, created>>

StarNext ==
  \/ SSStart
  \/ \E duration \in Durations, wait \in SpawnDelays :
       SpawnCallback(duration, wait)
  \/ RemoveStar
  \/ StarTick

(***************************************************************************)
(* TiltEffect and GlassMorph (src/js/glass-interactions.js)                *)
(***************************************************************************)

\* the elements of the page the effects can be given; NotElement is an
\* argument that is no HTMLElement
Targets == {1, 2}

\* half of rect.width and of rect.height of a target
HalfWidth == 2

HalfHeight == 2

\* e.clientX - centerX and e.clientY - centerY of a pointer event.  The
\* event also reaches the target when the pointer is over a descendant that
\* overflows the target's box, so an offset can exceed half the box.
PointerOffsets == {-2, 1, 3}

\* options.maxTilt
MaxTilts == {10, 20}

\* element.style.transform: '' / the tilted transform / the neutral one
Cleared == [kind |-> "", rotateX |-> 0, rotateY |-> 0]

Neutral == [kind |-> "neutral", rotateX |-> 0, rotateY |-> 0]

\* the listeners on element e for events of the given type
ListenerMethods(e, type) == Handlers(elListeners[e], type)

\* TiltEffect.setupElement: three listeners, each a fresh bound function
tiltSetupElement(ls) ==
  addEventListener(
    addEventListener(
      addEventListener(ls, "mouseenter", Bind("handleMouseEnter", "setupElement")),
      "mousemove", Bind("handleMouseMove", "setupElement")),
    "mouseleave", Bind("handleMouseLeave", "setupElement"))

\* the removeEventListener calls of remove() and destroy(), each with a
\* function bound at the call
tiltRemoveListeners(ls, site) ==
  removeEventListener(
    removeEventListener(
      removeEventListener(ls, "mouseenter", Bind("handleMouseEnter", site)),
      "mousemove", Bind("handleMouseMove", site)),
    "mouseleave", Bind("handleMouseLeave", site))

morphSetupElement(ls) ==
  addEventListener(
    addEventListener(ls, "mouseenter", Bind("morphIn", "setupElement")),
    "mouseleave", Bind("morphOut", "setupElement"))

morphRemoveListeners(ls, site) ==
  removeEventListener(
    removeEventListener(ls, "mouseenter", Bind("morphIn", site)),
    "mouseleave", Bind("morphOut", site))

\* the transform handleMouseMove applies for pointer offset (mx, my)
handleMouseMove(mx, my) ==
  [kind |-> "tilt",
   rotateX |-> 0 - ((my * tiltOptions.maxTilt) \div HalfHeight),
   rotateY |-> (mx * tiltOptions.maxTilt) \div HalfWidth]

GlassInit ==
  /\ glPc = "new"
  /\ tiltOptions = [maxTilt |-> 0, glare |-> FALSE]
  /\ tiltElements = {}
  /\ morphElements = {}
  /\ elListeners = [e \in Targets |-> {}]
  /\ transform = [e \in Targets |-> Cleared]
  /\ willChange = [e \in Targets |-> ""]
  /\ glare = [e \in Targets |-> "none"]
  /\ blur = [e \in Targets |-> ""]
  /\ background = [e \in Targets |-> ""]
  /\ hover = NotElement

\* new TiltEffect(selector, {maxTilt: mt, glare: gl})
TiltConstruct(matched, mt, gl) ==
  /\ glPc = "new"
  /\ glPc' = "tilt"
  /\ tiltOptions' = [maxTilt |-> mt, glare |-> gl]
  /\ tiltElements' = matched
  /\ elListeners' = [e \in Targets |->
                       IF e \in matched THEN tiltSetupElement(elListeners[e])
                       ELSE elListeners[e]]
  /\ UNCHANGED <<morphElements, transform, willChange, glare, blur,
                 background, hover, dataTheme>>

\* add(element)
TiltAdd(e) ==
  /\ glPc = "tilt"
  /\ IF e \in Targets /\ e \notin tiltElements
     THEN /\ elListeners' =
               [elListeners EXCEPT ![e] = tiltSetupElement(elListeners[e])]
          /\ tiltElements' = tiltElements \cup {e}
     ELSE UNCHANGED <<elListeners, tiltElements>>
  /\ UNCHANGED <<glPc, tiltOptions, morphElements, transform, willChange,
                 glare, blur, background, hover, dataTheme>>

\* remove(element)
TiltRemove(e) ==
  /\ glPc = "tilt"
  /\ IF e \in tiltElements
     THEN /\ elListeners' =
               [elListeners EXCEPT ![e] = tiltRemoveListeners(elListeners[e], "remove")]
          /\ transform' = [transform EXCEPT ![e] = Cleared]
          /\ tiltElements' = tiltElements \ {e}
     ELSE UNCHANGED <<elListeners, transform, tiltElements>>
  /\ UNCHANGED <<glPc, tiltOptions, morphElements, willChange, glare, blur,
                 background, hover, dataTheme>>

\* TiltEffect.destroy()
TiltDestroy ==
  /\ glPc = "tilt"
  /\ elListeners' = [e \in Targets |->
                       IF e \in tiltElements
                       THEN tiltRemoveListeners(elListeners[e], "destroy")
                       ELSE elListeners[e]]
  /\ transform' = [e \in Targets |->
                     IF e \in tiltElements THEN Cleared ELSE transform[e]]
  /\ willChange' = [e \in Targets |->
                      IF e \in tiltElements THEN "auto" ELSE willChange[e]]
  /\ tiltElements' = {}
  /\ UNCHANGED <<glPc, tiltOptions, morphElements, glare, blur, background,
                 hover, dataTheme>>

\* new GlassMorph(selector)
MorphConstruct(matched) ==
  /\ glPc = "new"
  /\ glPc' = "morph"
  /\ morphElements' = matched
  /\ elListeners' = [e \in Targets |->
                       IF e \in matched THEN morphSetupElement(elListeners[e])
                       ELSE elListeners[e]]
  /\ UNCHANGED <<tiltOptions, tiltElements, transform, willChange, glare,
                 blur, background, hover, dataTheme>>

\* GlassMorph.destroy()
MorphDestroy ==
  /\ glPc = "morph"
  /\ elListeners' = [e \in Targets |->
                       IF e \in morphElements
                       THEN morphRemoveListeners(elListeners[e], "destroy")
                       ELSE elListeners[e]]
  /\ blur' = [e \in Targets |-> IF e \in morphElements THEN "" ELSE blur[e]]
  /\ background' = [e \in Targets |->
                      IF e \in morphElements THEN "" ELSE background[e]]
  /\ morphElements' = {}
  /\ UNCHANGED <<glPc, tiltOptions, tiltElements, transform, willChange,
                 glare, hover, dataTheme>>

\* the pointer enters element e: handleMouseEnter and morphIn, if registered
MouseEnter(e) ==
  /\ hover = NotElement
  /\ hover' = e
  /\ willChange' =
       IF "handleMouseEnter" \in ListenerMethods(e, "mouseenter")
       THEN [willChange EXCEPT ![e] = "transform"] ELSE willChange
  /\ IF "morphIn" \in ListenerMethods(e, "mouseenter")
     THEN /\ blur' = [blur EXCEPT ![e] = "30px"]
          /\ background' =
               [background EXCEPT
                  ![e] = IF dataTheme = "dark" THEN "rgba(29, 29, 31, 0.9)"
                         ELSE "rgba(255, 255, 255, 0.9)"]
     ELSE UNCHANGED <<blur, background>>
  /\ UNCHANGED <<glPc, tiltOptions, tiltElements, morphElements, elListeners,
                 transform, glare, dataTheme>>

\* the pointer moves over element e: handleMouseMove, if registered
MouseMove(e, mx, my) ==
  /\ hover = e
  /\ IF "handleMouseMove" \in ListenerMethods(e, "mousemove")
     THEN /\ transform' = [transform EXCEPT ![e] = handleMouseMove(mx, my)]
          /\ glare' = IF tiltOptions.glare
                      THEN [glare EXCEPT ![e] = "shown"] ELSE glare
     ELSE UNCHANGED <<transform, glare>>
  /\ UNCHANGED <<glPc, tiltOptions, tiltElements, morphElements, elListeners,
                 willChange, blur, background, hover, dataTheme>>

\* the pointer leaves element e: handleMouseLeave and morphOut, if registered
MouseLeave(e) ==
  /\ hover = e
  /\ hover' = NotElement
  /\ IF "handleMouseLeave" \in ListenerMethods(e, "mouseleave")
     THEN /\ transform' = [transform EXCEPT ![e] = Neutral]
          /\ willChange' = [willChange EXCEPT ![e] = "auto"]
          /\ glare' = IF tiltOptions.glare /\ glare[e] /= "none"
                      THEN [glare EXCEPT ![e] = "hidden"] ELSE glare
     ELSE UNCHANGED <<transform, willChange, glare>>
  /\ IF "morphOut" \in ListenerMethods(e, "mouseleave")
     THEN /\ blur' = [blur EXCEPT ![e] = "original"]
          /\ background' = [background EXCEPT ![e] = ""]
     ELSE UNCHANGED <<blur, background>>
  /\ UNCHANGED <<glPc, tiltOptions, tiltElements, morphElements, elListeners,
                 dataTheme>>

\* the theme switcher sets the root marker (applyTheme)
GlassThemeChange(t) ==
  /\ t /= dataTheme
  /\ dataTheme' = t
  /\ UNCHANGED glassVars

GlassNext ==
  \/ \E matched \in SUBSET Targets, mt \in MaxTilts, gl \in BOOLEAN :
       TiltConstruct(matched, mt, gl)
  \/ \E e \in Targets \cup {NotElement} : TiltAdd(e)
  \/ \E e \in Targets : TiltRemove(e)
  \/ TiltDestroy
  \/ \E matched \in SUBSET Targets : MorphConstruct(matched)
  \/ MorphDestroy
  \/ \E e \in Targets : MouseEnter(e)
  \/ \E e \in Targets, mx \in PointerOffsets, my \in PointerOffsets :
       MouseMove(e, mx, my)
  \/ \E e \in Targets : MouseLeave(e)
  \/ \E t \in {"light", "dark"} : GlassThemeChange(t)

(***************************************************************************)
(* App (src/js/main.js): the initialisation sequence of the page           *)
(***************************************************************************)

\* the steps of onReady(), in call order
InitSteps ==
  << "initThemeSwitcher", "initScrollAnimations", "initSmoothScroll",
     "initScrollProgress", "initNavigation", "initAccessibility",
     "initCarousels" >>

NoStep == "none"

\* what the browser offers: window.matchMedia ("none" when missing, "legacy"
\* when its result has addListener only), window.IntersectionObserver, and
\* a localStorage that can be read
Browsers ==
  [matchMedia : {"none", "legacy", "modern"},
   intersectionObserver : BOOLEAN,
   storage : BOOLEAN]

\* what the markup holds: a .floating-nav, and a [data-carousel] with slides
\* that has or lacks its .carousel-dots container
Pages ==
  [nav : BOOLEAN, carousel : {"none", "complete", "nodots"}]

\* the steps whose body is wrapped in try / catch
Guarded == {"initThemeSwitcher", "initScrollAnimations"}

\* does the body of the step raise an exception in this browser and page
Throws(step, b, pg) ==
  CASE step = "initThemeSwitcher" -> ~b.storage \/ b.matchMedia = "none"
    [] step = "initScrollAnimations" -> b.matchMedia = "none"
    [] step = "initSmoothScroll" -> FALSE
    [] step = "initScrollProgress" -> FALSE
    [] step = "initNavigation" -> pg.nav /\ ~b.intersectionObserver
    [] step = "initAccessibility" -> b.matchMedia /= "modern"
    [] step = "initCarousels" -> pg.carousel = "nodots"

RECURSIVE onReady(_, _, _, _)
\* onReady() from step i on; r records the steps entered, the steps that
\* completed, the errors caught and logged, and the step whose exception
\* left onReady
onReady(i, r, b, pg) ==
  IF i > Len(InitSteps) THEN r
  ELSE LET step == InitSteps[i]
           entered == [r EXCEPT !.started = @ \cup {step}]
       IN  IF ~Throws(step, b, pg)
           THEN onReady(i + 1, [entered EXCEPT !.completed = @ \cup {step}], b, pg)
           ELSE IF step \in Guarded
           THEN onReady(i + 1, [entered EXCEPT !.caught = @ \cup {step}], b, pg)
           ELSE [entered EXCEPT !.uncaught = step]

NothingRun ==
  [started |-> {}, completed |-> {}, caught |-> {}, uncaught |-> NoStep]

\* the values window.scrollY takes
ScrollPositions == {0, 100, 300, 400}

\* the nav gets the class 'scrolled' beyond this scroll position
ScrolledAfter == 50

\* the nav hides on a downward scroll beyond this scroll position
HideAfter == 200

\* most scroll events whose frame callback has not run yet
MaxNavFrames == 2

\* initNavigation() has found the nav: this.nav is set, the closure variables
\* exist and the scroll listener is registered (all of it before the section
\* observer is created)
navSetUp(r, pg) == pg.nav /\ "initNavigation" \in r.started

\* initSmoothScroll() has registered the click listeners of the anchors
smoothScrollSetUp(r) == "initSmoothScroll" \in r.completed

\* handleNavScroll() at scroll position y
handleNavScroll(y) ==
  LET scrolled == IF y > ScrolledAfter
                  THEN navClasses \cup {"scrolled"}
                  ELSE navClasses \ {"scrolled"}
      hide == desktop /\ y > navLastScrollY /\ y > HideAfter /\ ~navHidden
      show == desktop /\ ~hide /\ y < navLastScrollY /\ navHidden
  IN  [navClasses |-> IF hide THEN scrolled \cup {"hidden"}
                      ELSE IF show THEN scrolled \ {"hidden"}
                      ELSE scrolled,
       navHidden |-> IF hide THEN TRUE ELSE IF show THEN FALSE ELSE navHidden,
       navLastScrollY |-> y]

\* the closure variables of initNavigation() after onReady() gave r
navAfterReady(r) ==
  /\ navLastScrollY' = IF navSetUp(r, page) THEN scrollY ELSE navLastScrollY
  /\ navHidden' = FALSE
  /\ UNCHANGED <<scrollY, desktop, navClasses, navFrames>>

AppInit ==
  /\ appPc = "new"
  /\ readyState \in {"loading", "complete"}
  /\ browser \in Browsers
  /\ page \in Pages
  /\ initRun = NothingRun
  /\ scrollY \in {0, 300}
  /\ desktop \in BOOLEAN
  /\ navLastScrollY = 0
  /\ navHidden = FALSE
  /\ navClasses = {}
  /\ navFrames = 0

\* new App(): init() runs onReady() now or registers it for DOMContentLoaded
AppConstruct ==
  /\ appPc = "new"
  /\ IF readyState = "loading"
     THEN /\ appPc' = "waiting"
          /\ UNCHANGED <<initRun, scrollY, desktop, navLastScrollY,
                         navHidden, navClasses, navFrames>>
     ELSE /\ appPc' = "ready"
          /\ initRun' = onReady(1, NothingRun, browser, page)
          /\ navAfterReady(onReady(1, NothingRun, browser, page))
  /\ UNCHANGED <<readyState, browser, page>>

\* the document finishes parsing; the registered listener runs onReady()
DOMContentLoaded ==
  /\ readyState = "loading"
  /\ readyState' = "interactive"
  /\ IF appPc = "waiting"
     THEN /\ appPc' = "ready"
          /\ initRun' = onReady(1, NothingRun, browser, page)
          /\ navAfterReady(onReady(1, NothingRun, browser, page))
     ELSE UNCHANGED <<appPc, initRun, scrollY, desktop, navLastScrollY,
                      navHidden, navClasses, navFrames>>
  /\ UNCHANGED <<browser, page>>

\* the load event
WindowLoad ==
  /\ readyState = "interactive"
  /\ readyState' = "complete"
  /\ UNCHANGED <<appPc, browser, page, initRun, scrollY, desktop,
                 navLastScrollY, navHidden, navClasses, navFrames>>

\* the page scrolls to position y; the scroll listener of initNavigation()
\* asks for a frame in which handleNavScroll runs
ScrollEvent(y) ==
  /\ y # scrollY
  /\ scrollY' = y
  /\ IF appPc = "ready" /\ navSetUp(initRun, page)
     THEN /\ navFrames < MaxNavFrames
          /\ navFrames' = navFrames + 1
     ELSE UNCHANGED navFrames
  /\ UNCHANGED <<appPc, readyState, browser, page, initRun, desktop,
                 navLastScrollY, navHidden, navClasses>>

\* the frame of a scroll event: handleNavScroll() reads window.scrollY
NavFrame ==
  /\ navFrames > 0
  /\ navFrames' = navFrames - 1
  /\ navClasses' = handleNavScroll(scrollY).navClasses
  /\ navHidden' = handleNavScroll(scrollY).navHidden
  /\ navLastScrollY' = handleNavScroll(scrollY).navLastScrollY
  /\ UNCHANGED <<appPc, readyState, browser, page, initRun, scrollY, desktop>>

\* a click on an in-page anchor whose target lies at scroll position y: the
\* listener of initSmoothScroll() shows the nav and scrolls to the target
AnchorClick(y) ==
  /\ appPc = "ready"
  /\ smoothScrollSetUp(initRun)
  /\ navClasses' = IF navSetUp(initRun, page)
                   THEN navClasses \ {"hidden"} ELSE navClasses
  /\ scrollY' = y
  /\ IF y # scrollY /\ navSetUp(initRun, page)
     THEN /\ navFrames < MaxNavFrames
          /\ navFrames' = navFrames + 1
     ELSE UNCHANGED navFrames
  /\ UNCHANGED <<appPc, readyState, browser, page, initRun, desktop,
                 navLastScrollY, navHidden>>

AppNext ==
  \/ AppConstruct
  \/ DOMContentLoaded
  \/ WindowLoad
  \/ \E y \in ScrollPositions : ScrollEvent(y)
  \/ NavFrame
  \/ \E y \in ScrollPositions : AnchorClick(y)

(***************************************************************************)
(* Specifications                                                          *)
(***************************************************************************)

\* ScrollAnimations not constructed
RevealIdle ==
  /\ saPc = "new"
  /\ doc = DocFlatGroup
  /\ once = TRUE
  /\ reducedMotion = FALSE
  /\ ioSupported = TRUE
  /\ observer = FALSE
  /\ observed = {}
  /\ elements = <<>>
  /\ visible = [e \in Elems(doc) |-> FALSE]
  /\ shown = [e \in Elems(doc) |-> FALSE]
  /\ delay = [e \in Elems(doc) |-> NoDelay]
  /\ animatedCount = [e \in Elems(doc) |-> 0]
  /\ lastExit = 0
  /\ ignored = {}

\* ThemeSwitcher not constructed
ThemeIdle ==
  /\ tsPc = "loading"
  /\ theme = Undefined
  /\ dataTheme = NoItem
  /\ stored = NoItem
  /\ osDark = FALSE
  /\ toggleEl = FALSE
  /\ toggle = "null"
  /\ toggleLabel = "<markup>"
  /\ toggleTransform = ""
  /\ feedbackTimer = FALSE
  /\ mqApi = "none"
  /\ dispatched = <<>>
  /\ errors = 0
  /\ lastOp = [op |-> "none", arg |-> NoItem]
  /\ startAbsent = FALSE
  /\ explicitChoice = FALSE
  /\ trail = <<>>

ParticlesIdle ==
  /\ pbPc = "new"
  /\ innerWidth = 1
  /\ innerHeight = 2
  /\ canvasW = 0
  /\ canvasH = 0
  /\ particleCount = 0
  /\ fpsInterval = NoInterval
  /\ particles = <<>>
  /\ animationId = NoHandle
  /\ rafPending = {}
  /\ sinceThen = 0
  /\ pbListeners = {}
  /\ pbInvoked = "none"
  /\ pbDrew = FALSE
  /\ pbThrown = FALSE
  /\ pbDestroyed = 0
  /\ pbCalls = <<>>
  /\ sinceDraw = NoGap

FirefliesIdle == FireflyInit

StarsIdle ==
  /\ ssPc = "loading"
  /\ ssContainer = FALSE
  /\ starDots = 0
  /\ spawnTimer = NoTimer
  /\ stars = <<>>
  /\ spawns = 0
  /\ created = 0

GlassIdle == GlassInit

AppIdle ==
  /\ appPc = "new"
  /\ readyState = "loading"
  /\ browser = [matchMedia |-> "modern", intersectionObserver |-> TRUE,
                storage |-> TRUE]
  /\ page = [nav |-> FALSE, carousel |-> "none"]
  /\ initRun = NothingRun
  /\ scrollY = 0
  /\ desktop = TRUE
  /\ navLastScrollY = 0
  /\ navHidden = FALSE
  /\ navClasses = {}
  /\ navFrames = 0

Init ==
  /\ ThemeInit
  /\ RevealIdle /\ ParticlesIdle /\ FirefliesIdle /\ StarsIdle /\ GlassIdle
  /\ AppIdle

Next ==
  /\ ThemeNext
  /\ UNCHANGED <<revealVars, particleVars, fireflyVars, starVars, glassVars,
                 appVars>>

\* the theme switcher
Spec == Init /\ [][Next]_vars

RevealSpecInit ==
  /\ RevealInit
  /\ ThemeIdle /\ ParticlesIdle /\ FirefliesIdle /\ StarsIdle /\ GlassIdle
  /\ AppIdle

RevealSpecNext ==
  /\ RevealNext
  /\ UNCHANGED <<themeVars, particleVars, fireflyVars, starVars, glassVars,
                 appVars>>

\* the reveal trigger
SpecReveal == RevealSpecInit /\ [][RevealSpecNext]_vars

ParticleSpecInit ==
  /\ ParticleInit
  /\ ThemeIdle /\ RevealIdle /\ FirefliesIdle /\ StarsIdle /\ GlassIdle
  /\ AppIdle

ParticleSpecNext ==
  /\ ParticleNext
  /\ UNCHANGED sinceDraw
  /\ UNCHANGED <<themeVars, revealVars, fireflyVars, starVars, glassVars,
                 appVars>>

\* the particle field
SpecParticles == ParticleSpecInit /\ [][ParticleSpecNext]_vars

\* the particle counts of the fields whose redraw times are recorded
ThrottleCounts == {1}

\* the time from the last redraw to a frame callback that comes dt after the
\* previous callback, which was gap after that redraw
gapAfter(gap, dt, drew, interval) ==
  IF drew THEN 0
  ELSE IF gap = NoGap THEN NoGap
  ELSE IF gap + dt > interval THEN interval
  ELSE gap + dt

ThrottleSpecNext ==
  /\ \/ /\ \E canvas \in BOOLEAN, n \in ThrottleCounts,
               interval \in FpsIntervals : PBConstruct(canvas, n, interval)
        /\ sinceDraw' = NoGap
     \/ \E dt \in 1 .. MaxDt :
          /\ Frame(dt)
          /\ sinceDraw' = gapAfter(sinceDraw, dt, pbDrew', fpsInterval)
     \/ /\ \/ \E size \in WindowSizes : ResizeEvent(size)
           \/ ThemeChangeEvent
           \/ Pause
           \/ Resume
           \/ PBDestroy
           \/ \E n \in ThrottleCounts \cup {0} : UpdateOptions(n)
        /\ sinceDraw' = gapAfter(sinceDraw, 0, pbDrew', fpsInterval)
  /\ UNCHANGED <<themeVars, revealVars, fireflyVars, starVars, glassVars,
                 appVars>>

\* the particle field with the time since its last redraw recorded
SpecThrottle == ParticleSpecInit /\ [][ThrottleSpecNext]_vars

\* the theme switcher's variables other than the root marker
themeRest == <<tsPc, theme, stored, osDark, toggleEl, toggle, toggleLabel,
               toggleTransform, feedbackTimer, mqApi, dispatched, errors,
               lastOp, startAbsent, explicitChoice, trail>>

FireflySpecInit ==
  /\ FireflyInit
  /\ ThemeIdle /\ RevealIdle /\ ParticlesIdle /\ StarsIdle /\ GlassIdle
  /\ AppIdle

FireflySpecNext ==
  /\ FireflyNext
  /\ UNCHANGED <<themeRest, revealVars, particleVars, starVars, glassVars,
                 appVars>>

\* the fireflies, with the root theme marker changing under them
SpecFireflies == FireflySpecInit /\ [][FireflySpecNext]_vars

StarSpecInit ==
  /\ StarInit
  /\ ThemeIdle /\ RevealIdle /\ ParticlesIdle /\ FirefliesIdle /\ GlassIdle
  /\ AppIdle

StarSpecNext ==
  /\ StarNext
  /\ UNCHANGED <<themeVars, revealVars, particleVars, fireflyVars, glassVars,
                 appVars>>

\* the shooting stars; the browser lets time pass and fires every timeout
\* that is due
SpecStars ==
  /\ StarSpecInit
  /\ [][StarSpecNext]_vars
  /\ WF_starVars(StarTick)
  /\ WF_starVars(RemoveStar)
  /\ WF_starVars(\E duration \in Durations, wait \in SpawnDelays :
                   SpawnCallback(duration, wait))

GlassSpecInit ==
  /\ GlassInit
  /\ ThemeIdle /\ RevealIdle /\ ParticlesIdle /\ FirefliesIdle /\ StarsIdle
  /\ AppIdle

GlassSpecNext ==
  /\ GlassNext
  /\ UNCHANGED <<themeRest, revealVars, particleVars, fireflyVars, starVars,
                 appVars>>

\* the tilt effect or the glass morph on a page with two candidate elements
SpecGlass == GlassSpecInit /\ [][GlassSpecNext]_vars

AppSpecInit ==
  /\ AppInit
  /\ ThemeIdle /\ RevealIdle /\ ParticlesIdle /\ FirefliesIdle /\ StarsIdle
  /\ GlassIdle

AppSpecNext ==
  /\ AppNext
  /\ UNCHANGED <<themeVars, revealVars, particleVars, fireflyVars, starVars,
                 glassVars>>

\* the page's initialisation in every browser and markup
SpecApp == AppSpecInit /\ [][AppSpecNext]_vars


(***************************************************************************)
(* Properties of the theme switcher (specification Spec)                   *)
(***************************************************************************)

ValidThemes == {"light", "dark"}

\* the value the OS-level dark-mode signal maps to
OsTheme == IF osDark THEN "dark" ELSE "light"

\* C1: after setTheme(v) with v light or dark, getCurrentTheme() returns v
\* and the call has fired exactly one theme-change notification, carrying v.
C1_SetThenGet ==
  (lastOp.op = "setTheme" /\ lastOp.arg \in ValidThemes)
    => /\ getCurrentTheme = lastOp.arg
       /\ Len(dispatched) = 1
       /\ dispatched[1].theme = lastOp.arg

\* setTheme("dark") has run on a switcher that showed the light theme
C1_Witness ==
  /\ lastOp = [op |-> "setTheme", arg |-> "dark"]
  /\ trail[Len(trail)].theme = "light"
  /\ theme = "dark"

\* C2: two toggleTheme() calls in a row bring the current theme and the
\* persisted value back to what they were before the first call.
C2_ToggleTwice ==
  (Len(trail) = 2 /\ trail[1].op = "toggleTheme" /\ trail[2].op = "toggleTheme")
    => /\ theme = trail[1].theme
       /\ stored = trail[1].stored

\* C3: right after startup with no persisted preference, getCurrentTheme()
\* is dark if the OS prefers dark and light otherwise.
C3_StartupFollowsOs ==
  (lastOp.op = "construct" /\ startAbsent) => getCurrentTheme = OsTheme

\* the switcher has just started without a persisted key on a dark OS
C3_Witness ==
  /\ lastOp.op = "construct"
  /\ startAbsent
  /\ osDark
  /\ theme = "dark"

\* C4: setTheme(x) with x neither light nor dark changes neither the current
\* theme, nor the data-theme attribute, nor the persisted value, and fires
\* no notification.
C4_InvalidRejected ==
  [][(lastOp'.op = "setTheme" /\ lastOp'.arg \notin ValidThemes)
       => /\ UNCHANGED <<theme, dataTheme, stored>>
          /\ dispatched' = <<>>]_vars

\* setTheme("blue") has run and logged its error
C4_Witness ==
  /\ lastOp = [op |-> "setTheme", arg |-> "blue"]
  /\ errors = 1
  /\ theme \in ValidThemes

\* C5: once the switcher has started, the current theme is light or dark,
\* whatever the persisted key held.
C5_ThemeIsLightOrDark ==
  tsPc = "ready" => getCurrentTheme \in ValidThemes

\* C6: if the key was absent at startup and nothing has been chosen
\* explicitly since, the key is still absent.
C6_KeyOnlyExplicit ==
  (tsPc = "ready" /\ startAbsent /\ ~explicitChoice) => stored = NoItem

\* C7: with the key absent at startup and no explicit choice since, an OS
\* change makes the current theme the new OS value; and the theme changes
\* only in a toggle, set, reset or OS-change step.
C7_FollowsOs ==
  [][tsPc = "ready" =>
       /\ (lastOp'.op = "osChange" /\ startAbsent /\ ~explicitChoice)
            => theme' = (IF osDark' THEN "dark" ELSE "light")
       /\ theme' /= theme
            => lastOp'.op \in {"click", "keydown", "setTheme", "toggleTheme",
                               "reset", "osChange"}]_vars

\* C8: after resetToSystemPreference() the persisted override is absent and
\* the current theme is the OS value.
C8_ResetClears ==
  lastOp.op = "reset" => (stored = NoItem /\ theme = OsTheme)

(***************************************************************************)
(* Properties of the reveal trigger (specification SpecReveal)             *)
(***************************************************************************)

\* C9: in once mode an element that is marked visible stays marked visible
\* in every later step, also when a record reports that it left the region.
C9_OnceMonotonic ==
  [][once => \A e \in Elems(doc) : visible[e] => visible'[e]]_vars

\* in once mode a record has reported a visible element as having left the
\* region, and the element is still visible
C9_Witness ==
  /\ once
  /\ lastExit /= 0
  /\ visible[lastExit]
  /\ animatedCount[lastExit] >= 1

\* the data-stagger containers that are e or enclose it
StaggerContainers(d, e) == {p \in AncestorsOrSelf(d, e) : d.stagger[p]}

\* the data-animate elements inside container p
GroupTargets(d, p) ==
  {x \in Elems(d) : x /= p /\ d.animate[x] /\ p \in AncestorsOrSelf(d, x)}

\* 0-based position of e among the targets of p, in document order
PositionIn(d, p, e) == Cardinality({x \in GroupTargets(d, p) : x < e})

\* p is the innermost of the containers of e
Innermost(d, p, e) ==
  /\ p \in StaggerContainers(d, e)
  /\ \A q \in StaggerContainers(d, e) : q \in AncestorsOrSelf(d, p)

\* C10 as stated: in every staggered group, the delay assigned to the i-th
\* target of the group is i times 0.1 s.
C10_DelayInEveryGroup ==
  \A e \in Elems(doc) : \A p \in StaggerContainers(doc, e) :
    (e \in GroupTargets(doc, p) /\ delay[e] /= NoDelay)
      => delay[e] = <<PositionIn(doc, p, e)>>

\* the index animateElement is to use for e, whose innermost container is p:
\* the position of e among the targets of p, and -1 for an element that is
\* not one of them (p itself, or an element without data-animate)
InnermostIndex(d, p, e) ==
  IF e \in GroupTargets(d, p) THEN PositionIn(d, p, e) ELSE -1

\* C10 amended: the delay assigned to an element when it is revealed is i
\* times 0.1 s, i being its position among the targets of the innermost
\* staggered group that contains it (-1 when it is not one of them); and
\* whenever such an element carries a delay, it is that one.
C10_DelayInInnermostGroup ==
  [][\A e \in Elems(doc) : \A p \in StaggerContainers(doc, e) :
       Innermost(doc, p, e)
         => /\ animatedCount'[e] > animatedCount[e]
                 => delay'[e] = <<InnermostIndex(doc, p, e)>>
            /\ delay'[e] /= NoDelay
                 => delay'[e] = <<InnermostIndex(doc, p, e)>>]_vars

\* the second target of a group has been revealed with delay 1 x 0.1 s
C10_Witness ==
  \E e \in Elems(doc) :
    /\ visible[e]
    /\ animatedCount[e] >= 1
    /\ closest(doc, e) /= 0
    /\ delay[e] = <<1>>


\* C11 as stated: in once mode a revealed element is never again in the
\* observed set and is never animated a second time, whatever intersection
\* records, observe() calls and refresh() calls follow.
C11_NeverWatchedAgain ==
  \A e \in Elems(doc) :
    (once /\ animatedCount[e] >= 1)
      => (e \notin observed /\ animatedCount[e] < 2)

\* C11 amended: in once mode the callback that reveals an element stops
\* watching it; while it is unwatched no step animates it again, and only
\* refresh() or observe() puts it back into the observed set.
C11_UnwatchedUntilReobserved ==
  [][once =>
       \A e \in Elems(doc) :
         /\ animatedCount'[e] > animatedCount[e] => e \notin observed'
         /\ e \notin observed => animatedCount'[e] = animatedCount[e]
         /\ (e \notin observed /\ e \in observed')
              => \/ saPc = "new"
                 \/ Refresh
                 \/ \E arr \in ObserveArgs : Observe(arr)]_vars

\* in once mode an element has been revealed once and is no longer watched,
\* while the observer still watches another element
C11_Witness ==
  /\ once
  /\ observer
  /\ \E e \in Elems(doc) :
       /\ animatedCount[e] = 1
       /\ visible[e]
       /\ e \notin observed
       /\ observed /= {}
       /\ lastExit /= 0

\* C12: when intersection watching is unavailable or reduced motion is
\* preferred at initialization, every reveal target of the document is
\* marked visible, no watcher exists, no element is watched, and no delay
\* has been assigned and no 'animated' event dispatched.
C12_DegradedShowsAll ==
  (saPc = "ready" /\ (reducedMotion \/ ~ioSupported))
    => /\ \A e \in Elems(doc) : doc.animate[e] => (visible[e] /\ shown[e])
       /\ ~observer
       /\ observed = {}
       /\ \A e \in Elems(doc) : delay[e] = NoDelay /\ animatedCount[e] = 0

\* the trigger has started with reduced motion preferred on a browser that
\* supports intersection watching, and the targets are visible
C12_Witness ==
  /\ saPc = "ready"
  /\ reducedMotion
  /\ ioSupported
  /\ \E e \in Elems(doc) : doc.animate[e] /\ visible[e]
  /\ \E e \in Elems(doc) : ~doc.animate[e] /\ ~visible[e]


(***************************************************************************)
(* Properties of the particle field (specification SpecParticles)          *)
(***************************************************************************)

\* the coordinate a position update must produce from coordinate c moved
\* by speed v on a surface of extent max
WrappedCoordinate(c, v, max) ==
  IF c + v > max THEN 0
  ELSE IF c + v < 0 THEN max
  ELSE c + v

\* C13: in every state each particle lies within the surface (0 <= x <=
\* width, 0 <= y <= height), also after a resize; and a redraw moves each
\* particle by its velocity, resetting a coordinate that exceeds the extent
\* to 0 and one that drops below 0 to the extent.
C13_WrapsIntoBounds ==
  [][/\ \A i \in DOMAIN particles' :
          /\ particles'[i].x \in 0 .. canvasW'
          /\ particles'[i].y \in 0 .. canvasH'
     /\ pbDrew' =>
          /\ DOMAIN particles' = DOMAIN particles
          /\ \A i \in DOMAIN particles :
               /\ particles'[i].x =
                    WrappedCoordinate(particles[i].x, particles[i].speedX, canvasW)
               /\ particles'[i].y =
                    WrappedCoordinate(particles[i].y, particles[i].speedY, canvasH)]_vars

\* a redraw has just wrapped one particle over the right edge to x = 0 and
\* one under the top edge to y = height
C13_Witness ==
  /\ pbDrew
  /\ \E i \in DOMAIN particles : particles[i].x = 0 /\ particles[i].speedX > 0
  /\ \E i \in DOMAIN particles :
       particles[i].y = canvasH /\ particles[i].speedY < 0

\* C14: once destroy() has been called, once or repeatedly, and as long as
\* resume() is not called afterwards, no frame callback of the field is
\* scheduled, animationId is null, no frame can run and no step draws.
C14_NoRedrawAfterDestroy ==
  pbDestroyed > 0
    => /\ rafPending = {}
       /\ animationId = NoHandle
       /\ ~pbDrew
       /\ \A dt \in 1 .. MaxDt : ~ENABLED Frame(dt)

\* destroy() has been called twice on a running field, in the middle of a
\* frame interval
C14_Witness ==
  /\ pbPc = "ready"
  /\ pbDestroyed = 2
  /\ sinceThen > 0
  /\ particles = <<>>

\* C15 as stated: after destroy() a viewport resize event or a theme-change
\* notification invokes no handler of the field.
C15_DestroyDetachesListeners ==
  pbDestroyed > 0 => pbInvoked = "none"


(***************************************************************************)
(* Properties of the ambient effects (SpecFireflies, SpecStars)            *)
(***************************************************************************)

\* C16 as stated: each recurring loop has an operation that stops it; so
\* whenever a callback of a loop is pending, some step of its component
\* leaves no callback of that loop pending.
C16_EveryLoopCanStop ==
  /\ rafPending /= {} => ENABLED (ParticleNext /\ rafPending' = {})
  /\ ffPending => ENABLED (FireflyNext /\ ~ffPending')
  /\ spawnTimer /= NoTimer => ENABLED (StarNext /\ spawnTimer' = NoTimer)

\* C17 as stated: in every state in which the root marker is dark, every
\* firefly has opacity 0.
C17_HiddenWheneverDark ==
  dataTheme = "dark" => \A i \in DOMAIN fireflies : fireflies[i].opacity = 0

\* C17 amended: in every state in which the root marker is dark and an
\* animation frame has run since the marker last changed, every firefly has
\* opacity 0.
C17_HiddenOnceFrameRan ==
  (dataTheme = "dark" /\ ffPolled)
    => \A i \in DOMAIN fireflies : fireflies[i].opacity = 0

\* a firefly that has drifted and glowed in light mode is hidden by the
\* first frame that runs in dark mode
C17_Witness ==
  /\ dataTheme = "dark"
  /\ ffPolled
  /\ \E i \in DOMAIN fireflies :
       fireflies[i].x /= StartPosition /\ fireflies[i].opacity = 0

\* C18: in every state the number of star elements created equals the
\* number of spawn callbacks fired, a star is in the document no longer than
\* its duration plus the grace period, and it cannot be removed before
\* that; and a star that is in the document is eventually removed.
C18_SpawnedCreatedRemoved ==
  /\ [](/\ created = spawns
        /\ \A i \in DOMAIN stars :
             /\ stars[i].life \in {d + Grace : d \in Durations}
             /\ stars[i].age <= stars[i].life
             /\ stars[i].age < stars[i].life
                  => ~ENABLED (StarNext /\ stars' = RemoveAt(stars, i)))
  /\ (stars /= <<>>) ~> (stars = <<>>)

\* two spawns have fired, two stars have been created and both are gone
C18_Witness ==
  /\ spawns = 2
  /\ created = 2
  /\ stars = <<>>
  /\ spawnTimer > 0


(***************************************************************************)
(* Properties of the tilt effect and the glass morph (SpecGlass)           *)
(***************************************************************************)

\* C19 as stated: an element that is not (or no longer) a target of the
\* tilt effect, after remove() or destroy(), has its transform cleared,
\* whatever pointer events it receives; and an element that is no longer a
\* target of the glass morph has its blur and background cleared.
C19_TeardownDetaches ==
  /\ glPc = "tilt"
       => \A e \in Targets \ tiltElements : transform[e] = Cleared
  /\ glPc = "morph"
       => \A e \in Targets \ morphElements :
            background[e] = "" /\ blur[e] = ""


(***************************************************************************)
(* Properties of the page initialisation (SpecApp)                         *)
(***************************************************************************)

\* C20 as stated: once onReady() has run, every one of the seven steps has
\* been started, and every step that failed had its failure caught; no
\* exception left onReady().
C20_NoInitFailureFatal ==
  appPc = "ready"
    => /\ initRun.started = {InitSteps[i] : i \in DOMAIN InitSteps}
       /\ initRun.uncaught = NoStep
       /\ initRun.started = initRun.completed \cup initRun.caught


(***************************************************************************)
(* Further properties of the particle field and of the shooting stars      *)
(***************************************************************************)

\* C21 as stated: on a particle field constructed without its canvas no
\* public operation raises an exception and no frame callback is ever
\* scheduled; and the shooting-star script without its container creates no
\* element and no timer.
C21_MissingElementNoOp ==
  /\ pbPc = "nocanvas" => (~pbThrown /\ rafPending = {})
  /\ ssPc = "nocontainer"
       => (starDots = 0 /\ stars = <<>> /\ spawnTimer = NoTimer)

\* the positions in the call log of the calls with the given name
CallsOf(op) == {k \in DOMAIN pbCalls : pbCalls[k].op = op}

\* C22 as stated: in a rendered frame every position update precedes every
\* draw call, so that no particle is drawn before all updates are applied.
C22_AllUpdatesBeforeAnyDraw ==
  pbDrew => \A u \in CallsOf("update"), d \in CallsOf("draw") : u < d

\* C22 amended: in a rendered frame the particles are visited in index
\* order and each one is updated and then immediately drawn, at the position
\* the update gave it: calls 2i-1 and 2i are the update and the draw of
\* particle i, so the draw of particle i precedes the update of particle i+1.
C22_EachUpdatedThenDrawn ==
  pbDrew =>
    /\ Len(pbCalls) = 2 * Len(particles)
    /\ \A i \in DOMAIN particles :
         /\ pbCalls[2 * i - 1] =
              [op |-> "update", i |-> i,
               x |-> particles[i].x, y |-> particles[i].y]
         /\ pbCalls[2 * i] =
              [op |-> "draw", i |-> i,
               x |-> particles[i].x, y |-> particles[i].y]

\* a frame with two particles was rendered: the first one was drawn before
\* the second one was updated
C22_Witness ==
  /\ pbDrew
  /\ Len(particles) = 2
  /\ pbCalls[2].op = "draw"
  /\ pbCalls[3].op = "update"

\* C23 as stated: a frame callback that arrives less than one frame interval
\* after the previous redraw performs no redraw.
C23_NoRedrawWithinInterval ==
  [][\A dt \in 1 .. MaxDt :
       (Frame(dt) /\ pbDrew' /\ sinceDraw # NoGap)
         => sinceDraw + dt >= fpsInterval]_vars

\* C23 amended: the throttle measures from the reference time this.then, not
\* from the previous redraw.  A frame callback redraws exactly when more than
\* one interval has passed since this.then, and then moves this.then to the
\* last whole multiple of the interval, keeping the remainder (less than one
\* interval); a callback that does not redraw leaves this.then at most one
\* interval behind.  The next redraw can therefore follow after less than one
\* interval, by as much as the remainder that was kept.
C23_ThrottledAgainstThen ==
  [][pbPc = "ready" =>
       /\ pbDrew' =>
            /\ sinceThen' < fpsInterval
            /\ \E dt \in 1 .. MaxDt :
                 /\ sinceThen + dt > fpsInterval
                 /\ sinceThen' = (sinceThen + dt) % fpsInterval
       /\ \A dt \in 1 .. MaxDt :
            Frame(dt) => (pbDrew' <=> sinceThen + dt > fpsInterval)
       /\ sinceThen' <= fpsInterval']_vars

\* a redraw that kept a remainder of the elapsed time
C23_Witness ==
  /\ pbDrew
  /\ sinceDraw = 0
  /\ fpsInterval = 3
  /\ sinceThen = 1

\* C24 as stated: between init and destroy the batch always has the number
\* of particles fixed at initialization; a step that leaves a live batch in
\* place or replaces it keeps its size.
C24_CountFixedAtInit ==
  [][(pbPc = "ready" /\ particles # <<>> /\ particles' # <<>>)
       => Len(particles') = Len(particles)]_vars

\* C24 amended: the batch has options.particleCount particles, unless it is
\* empty (after destroy()) or the option has been set to 0 (updateOptions
\* stores a zero count without regenerating).  The size changes only when
\* the batch is regenerated or emptied, never in a frame callback, pause(),
\* resume() or a theme change; updateOptions({particleCount: n}) with n > 0
\* regenerates it with n particles, and a resize regenerates a non-empty
\* batch with the current option value.
C24_CountFollowsOption ==
  [][pbPc = "ready" =>
       /\ Len(particles') \in {particleCount', 0} \/ particleCount' = 0
       /\ (Len(particles') # Len(particles) /\ particles' # <<>>)
            => /\ Len(particles') = particleCount'
               /\ \/ pbInvoked' = "resize"
                  \/ \E n \in ParticleCounts : UpdateOptions(n)
       /\ ( \/ \E dt \in 1 .. MaxDt : Frame(dt)
            \/ Pause
            \/ Resume
            \/ ThemeChangeEvent ) => Len(particles') = Len(particles)
       /\ \A n \in ParticleCounts :
            UpdateOptions(n) => Len(particles') = n]_vars

\* a resize regenerated a live batch of two particles with the count the
\* option holds
C24_Witness ==
  /\ pbPc = "ready"
  /\ pbInvoked = "resize"
  /\ pbDestroyed = 0
  /\ particleCount = 2
  /\ Len(particles) = 2

\* C28: once the field is constructed, under every interleaving of pause(),
\* resume(), destroy() and frame callbacks at most one frame callback is
\* pending, the pending one is the one animationId names, and animationId is
\* non-null exactly when a callback is pending; resume() always leaves
\* exactly one callback pending, so pause() then resume() continues with a
\* single chain.
C28_SingleFrameChain ==
  [][pbPc' # "new" =>
       /\ Cardinality(rafPending') <= 1
       /\ rafPending' \subseteq {animationId'}
       /\ (animationId' # NoHandle) <=> (rafPending' # {})
       /\ Resume => Cardinality(rafPending') = 1]_vars

\* a live field with exactly one callback pending while the clock of the
\* throttle stands at zero, as resume() leaves it
C28_Witness ==
  /\ pbPc = "ready"
  /\ pbDestroyed = 0
  /\ Cardinality(rafPending) = 1
  /\ animationId \in rafPending
  /\ animationId # 1
  /\ sinceThen = 0
  /\ ~pbDrew
  /\ particles # <<>>


(***************************************************************************)
(* Further properties of the glass effects                                 *)
(***************************************************************************)

\* the absolute value of an angle
Abs(a) == IF a < 0 THEN 0 - a ELSE a

\* C25 as stated: the rotation angles a pointer move gives an element are
\* clamped by the configured maximum: |rotateX| <= maxTilt and
\* |rotateY| <= maxTilt, wherever the pointer is.
C25_TiltClamped ==
  glPc = "tilt" =>
    \A e \in Targets :
      transform[e].kind = "tilt"
        => /\ Abs(transform[e].rotateX) <= tiltOptions.maxTilt
           /\ Abs(transform[e].rotateY) <= tiltOptions.maxTilt


(***************************************************************************)
(* Further properties of the scroll animations                             *)
(***************************************************************************)

\* C26 as stated: every element handed to observe() after initialization
\* gets revealed.  In degraded mode (reduced motion, or no intersection
\* watching) it is marked visible like all other targets; in normal mode it
\* is in the watched set until an intersection has marked it visible.
C26_ObservedGetsRevealed ==
  saPc = "ready" =>
    /\ (reducedMotion \/ ~ioSupported) => \A e \in ignored : visible[e]
    /\ observer =>
         \A e \in Range(elements) : e \in observed \/ animatedCount[e] >= 1


(***************************************************************************)
(* Further properties of the theme switcher                                *)
(***************************************************************************)

C29_FlagMatchesClass ==
  (appPc = "ready" /\ navSetUp(initRun, page))
    => (navHidden <=> "hidden" \in navClasses)

====
